---- MODULE Spec2Model ----
(***************************************************************************)
(* Mizan culture-survey application (src/app.py).                          *)
(*                                                                         *)
(* The script is re-run from top to bottom on every user interaction.  One *)
(* page run is one action: it reads the widgets' values, mutates           *)
(* st.session_state, may dispatch one chat-completion call and write one   *)
(* log file, and renders the page.  The two scoring helpers                *)
(* (calculate_entropy, group_values) are pure functions of the value list  *)
(* and of the taxonomy loaded at startup; they are exercised on their own  *)
(* under SpecScore and inside the page runs under Spec.                    *)
(*                                                                         *)
(* Strings whose content the code inspects (value names, option labels)    *)
(* are sequences of one-character strings.  Floats are exact rationals     *)
(* [num, den]: the code's (limiting / total) * 100 is the rational         *)
(* 100 * limiting / total, its rounding to a double is not modelled.       *)
(***************************************************************************)
EXTENDS Integers, Sequences, FiniteSets, TLC

VARIABLES
    MIZAN_VALUES_POOL,  \* the taxonomy, json.load of mizan_values_pool.json
    values,             \* SpecScore: the list handed to the scoring helpers
    entropy,            \* SpecScore: calculate_entropy's return value
    grouped,            \* SpecScore: group_values' return value
    scored,             \* SpecScore: which helpers have returned
    session_state,      \* st.session_state: a dict, keys present or absent
    uploader,           \* the file held by the "Upload Structure CSV" widget
    run,                \* the last page run: its inputs and how it ended
    rendered,           \* the page elements the last page run rendered
    shown,              \* the messages the last page run displayed
    logs                \* the log files written so far, in order

vars == <<MIZAN_VALUES_POOL, values, entropy, grouped, scored,
          session_state, uploader, run, rendered, shown, logs>>

scoreVars == <<values, entropy, grouped, scored>>
pageVars == <<session_state, uploader, run, rendered, shown, logs>>

----------------------------------------------------------------------------
(* Bounds of the model.                                                    *)

\* longest value list handed to a scoring helper under SpecScore
MaxLen == 3
\* largest taxonomy drawn under SpecScore
MaxPool == 2
\* most log files written in a session
MaxLogs == 2

----------------------------------------------------------------------------
(* Data & utilities.                                                       *)

\* the seven levels of MIZAN_LEVELS
NumLevels == 7
MIZAN_LEVELS == 1..NumLevels

Polarities == {"positive", "negative"}

\* Sequences over S of length at most n.
SeqsUpTo(S, n) == UNION {[1..k -> S] : k \in 0..n}

\* A float as an exact rational.
Rat(n, d) == [num |-> n, den |-> d]
RatEq(a, b) == a.num * b.den = b.num * a.den
RatLess(a, b) == a.num * b.den < b.num * a.den
\* the literal 0 of "... else 0"
Zero == Rat(0, 1)
\* no value computed yet
NoRat == Rat(0, 0)

\* calculate_entropy's inner loop: what one value adds to the counters
\* [limiting, total], one item of the taxonomy after the other
EntropyItems(val, pool) ==
    LET hits == SelectSeq(pool, LAMBDA item : item.name = val)
    IN [limiting |-> Len(SelectSeq(hits, LAMBDA item : item.type = "negative")),
        total |-> Len(hits)]

\* calculate_entropy's outer loop: the counters after the values k, k+1, ...
RECURSIVE EntropyValues(_, _, _)
EntropyValues(vals, pool, k) ==
    IF k > Len(vals) THEN [limiting |-> 0, total |-> 0]
    ELSE LET one == EntropyItems(vals[k], pool)
             rest == EntropyValues(vals, pool, k + 1)
         IN [limiting |-> one.limiting + rest.limiting,
             total |-> one.total + rest.total]

\* A missing guard: the division is made whatever the total.
calculate_entropy_unguarded(vals, pool) ==
    LET acc == EntropyValues(vals, pool, 1)
    IN Rat(100 * acc.limiting, acc.total)

\* def calculate_entropy(values)
calculate_entropy(vals, pool) ==
    LET acc == EntropyValues(vals, pool, 1)
    IN IF acc.total > 0 THEN Rat(100 * acc.limiting, acc.total) ELSE Zero

\* grouped = {i: {"positive": [], "negative": []} for i in range(1, 8)}
EmptyGroups == [i \in MIZAN_LEVELS |-> [t \in Polarities |-> <<>>]]

\* group_values' inner loop: the appends one value makes, in the order of
\* the taxonomy items that carry its name
GroupItems(val, pool) ==
    LET hits == SelectSeq(pool, LAMBDA v : v.name = val)
    IN [j \in 1..Len(hits) |->
           [level |-> hits[j].level, type |-> hits[j].type, val |-> val]]

\* group_values' outer loop: the appends made for the values k, k+1, ...
RECURSIVE GroupValues(_, _, _)
GroupValues(vals, pool, k) ==
    IF k > Len(vals) THEN <<>>
    ELSE GroupItems(vals[k], pool) \o GroupValues(vals, pool, k + 1)

\* grouped[level][type] after the appends: those made to it, in their order
Grouped(appends) ==
    [i \in MIZAN_LEVELS |->
        [t \in Polarities |->
            LET mine == SelectSeq(appends, LAMBDA h : h.level = i /\ h.type = t)
            IN [j \in 1..Len(mine) |-> mine[j].val]]]

\* A grouping that files every match under "positive".
group_values_onebucket(vals, pool) ==
    Grouped(GroupValues(vals,
                        [i \in 1..Len(pool) |-> [pool[i] EXCEPT !.type = "positive"]],
                        1))

\* def group_values(values)
group_values(vals, pool) == Grouped(GroupValues(vals, pool, 1))

----------------------------------------------------------------------------
(* Strings the code takes apart, as sequences of characters.               *)

\* str.split(c): the parts between the occurrences of c, from character i on,
\* cur being the part under way.
RECURSIVE SplitAcc(_, _, _, _, _)
SplitAcc(s, c, i, cur, parts) ==
    IF i > Len(s) THEN Append(parts, cur)
    ELSE IF s[i] = c THEN SplitAcc(s, c, i + 1, <<>>, Append(parts, cur))
    ELSE SplitAcc(s, c, i + 1, Append(cur, s[i]), parts)

Split(s, c) == SplitAcc(s, c, 1, <<>>, <<>>)

IsSpace(ch) == ch = " "

RECURSIVE LStrip(_)
LStrip(s) == IF s # <<>> /\ IsSpace(Head(s)) THEN LStrip(Tail(s)) ELSE s

RECURSIVE RStrip(_)
RStrip(s) ==
    IF s # <<>> /\ IsSpace(s[Len(s)]) THEN RStrip(SubSeq(s, 1, Len(s) - 1)) ELSE s

\* str.strip()
Strip(s) == RStrip(LStrip(s))

RECURSIVE Flatten(_)
Flatten(ss) == IF ss = <<>> THEN <<>> ELSE Head(ss) \o Flatten(Tail(ss))

Range(f) == {f[x] : x \in DOMAIN f}

----------------------------------------------------------------------------
(* st.session_state and the objects kept in it.                            *)

\* A dict with no key.
EmptyDict == [k \in {} |-> 0]

\* d[k] = v
Put(d, k, v) == [x \in DOMAIN d \cup {k} |-> IF x = k THEN v ELSE d[x]]

\* the value of Python's None where a string is expected
None == "<None>"

\* def get_company(): st.session_state.get("company_info", {}) or {}
get_company(ss) ==
    IF "company_info" \in DOMAIN ss THEN ss["company_info"] ELSE EmptyDict

\* ci.get("name") as a condition: the key is there and its string is not empty
HasName(ci) == "name" \in DOMAIN ci /\ ci["name"] # ""

\* ci.get("name", "")
NameOf(ci) == IF "name" \in DOMAIN ci THEN ci["name"] ELSE ""

\* st.session_state.get("employee_responses", [])
Responses(ss) ==
    IF "employee_responses" \in DOMAIN ss THEN ss["employee_responses"] ELSE <<>>

EntryKeys == {"department", "current_experience", "desired_values", "personal_values"}

\* def get_employee_df_for_company(company_name): the rows of the frame
get_employee_df_for_company(ss, company_name) ==
    SelectSeq(Responses(ss),
              LAMBDA e : e.company = company_name /\ EntryKeys \subseteq DOMAIN e)

\* df.get(col, ...).explode().dropna().tolist() over the rows of a frame
Explode(rows, col) == Flatten([j \in 1..Len(rows) |-> rows[j][col]])

\* [v.strip() for v in in_values.split(",") if v.strip()]
ParseValues(in_values) ==
    LET parts == Split(in_values, ",")
        stripped == [j \in 1..Len(parts) |-> Strip(parts[j])]
    IN SelectSeq(stripped, LAMBDA v : v # <<>>)

\* A save that replaces the stored profile by the form's content.
SaveCompanyInfo_replace(ss, inp) ==
    Put(ss, "company_info",
        [f \in {"name", "vision", "mission", "strategy"} |-> inp[f]])

\* The body of `if st.button("Save Company Info")`: setdefault, then one
\* assignment per non-empty input.
SaveCompanyInfo(ss, inp) ==
    LET ci0 == IF "company_info" \in DOMAIN ss THEN ss["company_info"] ELSE EmptyDict
        ci1 == IF inp.name # "" THEN Put(ci0, "name", inp.name) ELSE ci0
        ci2 == IF inp.vision # "" THEN Put(ci1, "vision", inp.vision) ELSE ci1
        ci3 == IF inp.mission # "" THEN Put(ci2, "mission", inp.mission) ELSE ci2
        ci4 == IF inp.strategy # "" THEN Put(ci3, "strategy", inp.strategy) ELSE ci3
        ci5 == IF inp.values # <<>>
               THEN Put(ci4, "values", ParseValues(inp.values)) ELSE ci4
    IN Put(ss, "company_info", ci5)

\* needed = [...]
needed == {"Employee Name", "Employee Email", "Employee Department", "Supervisor Name"}

\* A check that forgets the last of the needed columns.
ColumnsOk_short(df) == (needed \ {"Supervisor Name"}) \subseteq df.columns

\* all(col in df_struct.columns for col in needed)
ColumnsOk(df) == needed \subseteq df.columns

\* A persist that starts the list afresh on every submission.
Persist_reset(ss, entry) == Put(ss, "employee_responses", <<entry>>)

\* if "employee_responses" not in st.session_state: ... = []; then append
Persist(ss, entry) ==
    LET ss1 == IF "employee_responses" \notin DOMAIN ss
               THEN Put(ss, "employee_responses", <<>>) ELSE ss
    IN Put(ss1, "employee_responses", Append(ss1["employee_responses"], entry))

----------------------------------------------------------------------------
(* The inputs of a page run.                                               *)

\* the files a user uploads, as pd.read_csv reads them: the columns and the
\* "Employee Department" column
Files ==
    [good |-> [columns |-> needed, depts |-> <<"Eng", "Eng">>],
     wide |-> [columns |-> needed \cup {"Title"}, depts |-> <<"Eng">>],
     noname |-> [columns |-> needed \ {"Employee Name"}, depts |-> <<"Eng">>],
     noemail |-> [columns |-> needed \ {"Employee Email"}, depts |-> <<"Eng">>],
     nodept |-> [columns |-> needed \ {"Employee Department"}, depts |-> <<>>],
     nosup |-> [columns |-> needed \ {"Supervisor Name"}, depts |-> <<"Eng">>]]

FileIds == DOMAIN Files

\* what the Company form's five text widgets hold when the script runs
EmptyForm ==
    [name |-> "", vision |-> "", mission |-> "", strategy |-> "", values |-> <<>>]

CompanyForms ==
    {EmptyForm,
     [name |-> "Acme", vision |-> "v1", mission |-> "m1", strategy |-> "",
      values |-> <<>>],
     [name |-> "Beta", vision |-> "", mission |-> "", strategy |-> "s2",
      values |-> <<"p", ",", " ", ",", " ", "q", " ">>]}

Buttons == {"save", "btn_orgdesign", "btn_dept", "btn_org", "btn_report"}
InsightButtons == Buttons \ {"save"}

\* the event that triggers a page run: a button press, a file put into the
\* uploader, or any other widget change (typing, selecting, navigating)
Events ==
    [kind : {"input"}, button : {"none"}, file : {"none"}]
        \cup [kind : {"press"}, button : Buttons, file : {"none"}]
        \cup [kind : {"upload"}, button : {"none"}, file : FileIds]

\* how a dispatched chat-completion call and the logging of its answer end
Outcomes == {"ok", "call_fails", "log_fails"}

\* the text of a model answer
Answer == "insight"

Pressed(ev, b) == ev.kind = "press" /\ ev.button = b

\* The state of a session before its first page run.
PageInit ==
    /\ session_state = EmptyDict
    /\ uploader = "none"
    /\ run = [page |-> "none", kind |-> "input", button |-> "none", file |-> "none",
              form |-> EmptyForm, dept |-> None, personal |-> <<>>,
              current |-> <<>>, desired |-> <<>>, ratings |-> <<1, 1>>,
              outcome |-> "none", calls |-> 0, ended |-> "running"]
    /\ rendered = {}
    /\ shown = {}
    /\ logs = <<>>


----------------------------------------------------------------------------
(* A page run threads a context through the script's sections: the session *)
(* state and log files as written so far, what was rendered and shown,     *)
(* whether the script is still running ("running"), was halted by          *)
(* st.stop() ("stopped") or left by an uncaught exception ("raised"), and  *)
(* how many chat-completion calls were dispatched.                         *)

StartCtx ==
    [ss |-> session_state, logs |-> logs, rendered |-> {}, shown |-> {},
     ended |-> "running", calls |-> 0, entropy |-> NoRat, grouped |-> EmptyGroups,
     upl |-> "none"]

Render(ctx, elems) == [ctx EXCEPT !.rendered = @ \cup elems]
Show(ctx, msg) == [ctx EXCEPT !.shown = @ \cup {msg}]

\* def log_ai_insight(content, context): one write of logs/{context}_{ts}.txt;
\* `files` is the sequence of the writes made so far
log_ai_insight(files, content, context) ==
    Append(files, [context |-> context, content |-> content])

\* An insight call that is dispatched again when it fails, and whose second
\* failure is swallowed.
Insight_retry(ctx, context, outcome, showFirst) ==
    IF outcome = "call_fails"
    THEN [ctx EXCEPT !.calls = @ + 2]
    ELSE [ctx EXCEPT !.calls = @ + 1,
                     !.rendered = @ \cup {"insight"},
                     !.logs = log_ai_insight(@, Answer, context)]

\* client.chat.completions.create(...), .strip(), the display of the answer
\* and log_ai_insight, in the order of the call site (showFirst: the answer
\* is displayed before it is logged).  No try/except anywhere: a failure of
\* the call or of the file write leaves the script.
Insight(ctx, context, outcome, showFirst) ==
    LET c1 == [ctx EXCEPT !.calls = @ + 1]
    IN IF outcome = "call_fails" THEN [c1 EXCEPT !.ended = "raised"]
       ELSE IF outcome = "log_fails"
            THEN [c1 EXCEPT !.ended = "raised",
                            !.rendered = IF showFirst THEN @ \cup {"insight"} ELSE @]
            ELSE [c1 EXCEPT !.rendered = @ \cup {"insight"},
                            !.logs = log_ai_insight(@, Answer, context)]

\* def draw_2d_mizan_dashboard(selected_values, mode, selected_department=None)
draw_2d_mizan_dashboard(ctx, selected_values, mode) ==
    LET c1 == Render(ctx, {"dashboard"})
        entries == Responses(ctx.ss)
    IN IF mode = "employee"
       THEN IF selected_values = <<>>
            THEN Show(c1, "No values selected yet.")
            ELSE [Render(c1, {"chart"}) EXCEPT
                      !.grouped = group_values(selected_values, MIZAN_VALUES_POOL)]
       ELSE IF entries = <<>>
            THEN Show(c1, "No employee data available yet.")
            ELSE [Render(c1, {"chart"}) EXCEPT
                      !.grouped = group_values(
                          Explode(entries, "current_experience")
                              \o Explode(entries, "desired_values"),
                          MIZAN_VALUES_POOL)]

----------------------------------------------------------------------------
(* Company page.                                                           *)

\* "1. Company Info" and the Save button
CompanySave(ctx, ev, form) ==
    LET c1 == Render(ctx, {"company_form", "btn_save"})
    IN IF Pressed(ev, "save")
       THEN Show([c1 EXCEPT !.ss = SaveCompanyInfo(@, form)], "Company info saved.")
       ELSE c1

\* An upload section offered whether or not a name was saved.
UploadOffered_always(ci) == TRUE

\* if ci.get("name"): (the guard of "2. Upload Company Structure")
UploadOffered(ci) == HasName(ci)

\* the sticky profile, then "2. Upload Company Structure": the uploader keeps
\* its file from run to run, and every run that finds an acceptable file in
\* it stores the frame
CompanyUpload(ctx, ev, outcome) ==
    LET ci == get_company(ctx.ss)
        c0 == IF HasName(ci) THEN Render(ctx, {"profile"}) ELSE ctx
        file == IF ev.kind = "upload" THEN ev.file ELSE uploader
        c1 == [Render(c0, {"uploader"}) EXCEPT !.upl = file]
        df_struct == Files[file]
        c2 == Show(Render([c1 EXCEPT !.ss = Put(@, "company_structure", df_struct)],
                          {"dataframe", "btn_orgdesign"}),
                   "Structure uploaded.")
    IN IF ~UploadOffered(ci) THEN c0
       ELSE IF file = "none" THEN c1
       ELSE IF ColumnsOk(df_struct)
            THEN IF Pressed(ev, "btn_orgdesign")
                 THEN Insight(c2, <<"org_design_analysis">>, outcome, TRUE)
                 ELSE c2
            ELSE Show(c1, "Missing required columns in CSV.")

\* departments of the company's submissions: .dropna().unique()
DeptsOf(rows) == {rows[j].department : j \in 1..Len(rows)} \ {None}

\* "4. Organizational Culture Analysis"
CompanyAnalysis(ctx, ev, sel_dept, outcome) ==
    LET ci == get_company(ctx.ss)
        df_emp == get_employee_df_for_company(ctx.ss, ci["name"])
        c1 == Render(ctx, {"analysis"})
        depts == DeptsOf(df_emp)
        dept_df == SelectSeq(df_emp, LAMBDA r : r.department = sel_dept)
        cur == Explode(dept_df, "current_experience")
        des == Explode(dept_df, "desired_values")
        c2 == IF depts # {}
              THEN IF Pressed(ev, "btn_dept")
                   THEN Insight([Render(c1, {"dept_select", "btn_dept"}) EXCEPT
                                     !.entropy = calculate_entropy(cur \o des,
                                                                   MIZAN_VALUES_POOL)],
                                <<"dept", sel_dept, "analysis">>, outcome, FALSE)
                   ELSE Render(c1, {"dept_select", "btn_dept"})
              ELSE Show(c1, "No department data available.")
        c3 == IF c2.ended # "running" THEN c2
              ELSE IF Pressed(ev, "btn_org")
                   THEN Insight(Render(c2, {"btn_org"}),
                                <<"org_culture_analysis">>, outcome, FALSE)
                   ELSE Render(c2, {"btn_org"})
    IN IF ctx.ended # "running" \/ ~HasName(ci) THEN ctx
       ELSE IF df_emp = <<>> THEN Show(c1, "No employee submissions yet.")
       ELSE IF c3.ended # "running" THEN c3
       ELSE draw_2d_mizan_dashboard(c3, <<>>, "admin")

\* the departments the "Choose department" selectbox offers once the form
\* has been saved
OfferedDepts(ss) ==
    LET ci == get_company(ss)
    IN IF HasName(ci) THEN DeptsOf(get_employee_df_for_company(ss, ci["name"])) ELSE {}

CompanyButtons == {"save", "btn_orgdesign", "btn_dept", "btn_org"}

\* what a run on the Company page may be triggered by
CompanyEvents ==
    {ev \in Events : ev.kind = "press" => ev.button \in CompanyButtons}

\* The record kept of a page run.
RunRecord(page, ev, form, dept, personal, current, desired, ratings, outcome, ctx) ==
    [page |-> page, kind |-> ev.kind, button |-> ev.button, file |-> ev.file,
     form |-> form, dept |-> dept, personal |-> personal, current |-> current,
     desired |-> desired, ratings |-> ratings,
     outcome |-> IF ctx.calls > 0 THEN outcome ELSE "none",
     calls |-> ctx.calls, ended |-> ctx.ended]

\* The script from "if page == 'Company'" to its end.
Company(ev, form, sel_dept, outcome) ==
    CompanyAnalysis(CompanyUpload(CompanySave(StartCtx, ev, form), ev, outcome),
                    ev, sel_dept, outcome)

\* One run of the script with the navigation radio on "Company".  The form's
\* text is read by the Save handler alone, the department selection by the
\* department button's, the call's outcome by a run that dispatches a call.
CompanyRun ==
    \E ev \in CompanyEvents :
    \E form \in IF Pressed(ev, "save") THEN CompanyForms ELSE {EmptyForm} :
    \E sel_dept \in IF Pressed(ev, "btn_dept") /\ OfferedDepts(session_state) # {}
                    THEN OfferedDepts(session_state) ELSE {None} :
    \E outcome \in IF ev.button \in InsightButtons THEN Outcomes ELSE {"ok"} :
    \E ctx \in {Company(ev, form, sel_dept, outcome)} :
       /\ IF ctx.calls > 0 THEN Len(logs) < MaxLogs ELSE outcome = "ok"
       /\ session_state' = ctx.ss
       /\ logs' = ctx.logs
       /\ uploader' = ctx.upl
       /\ rendered' = ctx.rendered
       /\ shown' = ctx.shown
       /\ entropy' = ctx.entropy
       /\ grouped' = ctx.grouped
       /\ run' = RunRecord("Company", ev, form, sel_dept, <<>>, <<>>, <<>>, <<1, 1>>,
                           outcome, ctx)
       /\ UNCHANGED <<MIZAN_VALUES_POOL, values, scored>>

----------------------------------------------------------------------------
(* Employee page.                                                          *)

\* the 7 of "select 7" and of `len(...) != 7`
RequiredCount == 7

\* def get_options(): f"{v['name']}: {v['definition']}"
get_options(pool) ==
    [i \in 1..Len(pool) |-> pool[i].name \o <<":", " ">> \o pool[i].definition]

\* def clean(vs): [v.split(":")[0].strip() for v in vs]
clean(vs) == [j \in 1..Len(vs) |-> Strip(Split(vs[j], ":")[1])]

\* st.multiselect: the chosen options, picks being their positions
Multiselect(options, picks) == [j \in 1..Len(picks) |-> options[picks[j]]]

\* A prerequisite check that warns only when both keys are missing.
PrerequisiteMissing_both(ss) ==
    "company_info" \notin DOMAIN ss /\ "company_structure" \notin DOMAIN ss

\* "company_info" not in st.session_state or "company_structure" not in ...
PrerequisiteMissing(ss) ==
    "company_info" \notin DOMAIN ss \/ "company_structure" \notin DOMAIN ss

\* A gate that lets through any selection of 7 or more.
SelectionOk_atleast(sel) == Len(sel) >= RequiredCount

\* the negation of `len(personal) != 7`
SelectionOk(sel) == Len(sel) = RequiredCount

\* .unique() of the structure's "Employee Department" column, as a set
dept_list(ss) == Range(ss["company_structure"].depts)

\* what the "Your Department" selectbox may hold: one of dept_list, None
\* when there is none
DeptChoices(ss) ==
    IF "company_structure" \in DOMAIN ss /\ dept_list(ss) # {}
    THEN dept_list(ss) ELSE {None}

\* An entry that keeps the raw option labels' count but drops a value.
MakeEntry_short(ss, emp, emp_dept, personal, current, desired, ratings) ==
    [name |-> emp.name, email |-> emp.email, department |-> emp_dept,
     personal_values |-> clean(personal),
     current_experience |-> Tail(clean(current)),
     desired_values |-> clean(desired),
     engagement |-> ratings[1], recognition |-> ratings[2],
     company |-> NameOf(get_company(ss))]

\* entry = {...}
MakeEntry(ss, emp, emp_dept, personal, current, desired, ratings) ==
    [name |-> emp.name, email |-> emp.email, department |-> emp_dept,
     personal_values |-> clean(personal),
     current_experience |-> clean(current),
     desired_values |-> clean(desired),
     engagement |-> ratings[1], recognition |-> ratings[2],
     company |-> NameOf(get_company(ss))]

\* the banner under "Cultural Entropy Score"
EntropyBanner(e) ==
    IF RatLess(e, Rat(10, 1)) THEN "Low cultural entropy. Strong alignment."
    ELSE IF RatLess(e, Rat(20, 1))
         THEN "Moderate cultural entropy. Some limiting values detected."
         ELSE "High cultural entropy. Cultural friction likely."

\* The body of `if st.button("Generate My Report")` once the entry is built:
\* call, display, log, entropy, persist, dashboard.
Submit(ctx, entry, outcome) ==
    LET c1 == Insight(ctx, <<"employee", entry.email, "report">>, outcome, TRUE)
        e == calculate_entropy(entry.current_experience \o entry.desired_values,
                               MIZAN_VALUES_POOL)
        c2 == Show([Render(c1, {"report"}) EXCEPT !.entropy = e], EntropyBanner(e))
        c3 == [c2 EXCEPT !.ss = Persist(@, entry)]
    IN IF c1.ended # "running" THEN c1
       ELSE draw_2d_mizan_dashboard(
                c3,
                entry.personal_values \o entry.current_experience
                    \o entry.desired_values,
                "employee")

Stop(ctx, msg) == [Show(ctx, msg) EXCEPT !.ended = "stopped"]

\* The Employee page from the prerequisite check to the submit button.
\* st.session_state["company_structure"] is a KeyError when the key is not
\* there.
Employee(ctx, ev, emp, emp_dept, personal, current, desired, ratings, outcome) ==
    LET c1 == Render(ctx, {"step1", "step2"})
        c2 == Render(c1, {"step3"})
        c3 == Render(c2, {"step4"})
        c4 == Render(c3, {"step5", "btn_report"})
    IN IF PrerequisiteMissing(ctx.ss)
       THEN Show(ctx, "The company has not completed setup.")
       ELSE IF "company_structure" \notin DOMAIN ctx.ss
       THEN [ctx EXCEPT !.ended = "raised"]
       ELSE IF ~SelectionOk(personal)
       THEN Stop(c1, "Please select exactly 7 values for Personal.")
       ELSE IF ~SelectionOk(current)
       THEN Stop(c2, "Please select exactly 7 values for Current.")
       ELSE IF ~SelectionOk(desired)
       THEN Stop(c3, "Please select exactly 7 values for Desired.")
       ELSE IF Pressed(ev, "btn_report")
       THEN Submit(c4,
                   MakeEntry(ctx.ss, emp, emp_dept, personal, current, desired, ratings),
                   outcome)
       ELSE c4

\* the options a multiselect may hold, by position: 6, 7 and 8 of them
Picks(lo, hi) == [j \in 1..(hi - lo + 1) |-> lo + j - 1]
PickChoices == {Picks(1, 6), Picks(1, 7), Picks(1, 8)}
RatingChoices == {<<4, 2>>}
Employees == {[name |-> "Ann", email |-> "ann@acme"]}

EmployeeEvents ==
    {ev \in Events : ev.kind = "input" \/ Pressed(ev, "btn_report")}

\* what a multiselect the run reaches may hold; one it does not reach holds
\* nothing
Choices(reached) ==
    IF reached
    THEN {Multiselect(get_options(MIZAN_VALUES_POOL), p) : p \in PickChoices}
    ELSE {<<>>}

\* One run of the script with the navigation radio on "Employee".  The
\* name, email, department and ratings are read by the submit handler alone.
EmployeeRun ==
    \E ev \in EmployeeEvents :
    \E emp \in Employees :
    \E open \in {~PrerequisiteMissing(session_state)} :
    \E personal \in Choices(open) :
    \E current \in Choices(open /\ SelectionOk(personal)) :
    \E desired \in Choices(open /\ SelectionOk(personal) /\ SelectionOk(current)) :
    \E entered \in {/\ open /\ Pressed(ev, "btn_report") /\ SelectionOk(personal)
                    /\ SelectionOk(current) /\ SelectionOk(desired)} :
    \E emp_dept \in IF entered THEN DeptChoices(session_state) ELSE {None} :
    \E ratings \in IF entered THEN RatingChoices ELSE {<<1, 1>>} :
    \E outcome \in IF Pressed(ev, "btn_report") THEN Outcomes ELSE {"ok"} :
    \E ctx \in {Employee(StartCtx, ev, emp, emp_dept, personal, current, desired,
                         ratings, outcome)} :
       /\ IF ctx.calls > 0 THEN Len(logs) < MaxLogs ELSE outcome = "ok"
       /\ session_state' = ctx.ss
       /\ logs' = ctx.logs
       /\ uploader' = ctx.upl
       /\ rendered' = ctx.rendered
       /\ shown' = ctx.shown
       /\ entropy' = ctx.entropy
       /\ grouped' = ctx.grouped
       /\ run' = RunRecord("Employee", ev, EmptyForm, emp_dept, personal, current,
                           desired, ratings, outcome, ctx)
       /\ UNCHANGED <<MIZAN_VALUES_POOL, values, scored>>

----------------------------------------------------------------------------
(* The session: the taxonomy is loaded once, then page runs follow one     *)
(* another.                                                                *)

Item(n, l, t, d) == [name |-> n, level |-> l, type |-> t, definition |-> d]

\* A taxonomy file of eight items.  Nothing checks the file: one name is
\* listed twice, one contains a colon, one ends in a blank, one description
\* contains a colon.
SessionPool ==
    <<Item(<<"T">>, 2, "positive", <<"t">>),
      Item(<<"F">>, 1, "negative", <<"f">>),
      Item(<<"G">>, 4, "positive", <<"g">>),
      Item(<<"B">>, 3, "negative", <<"n", ":", "o">>),
      Item(<<"C">>, 6, "positive", <<"c">>),
      Item(<<"C">>, 7, "positive", <<"k">>),
      Item(<<"W", ":", "w">>, 5, "positive", <<"b">>),
      Item(<<"R", " ">>, 4, "negative", <<"r">>)>>

Init ==
    /\ MIZAN_VALUES_POOL = SessionPool
    /\ values = <<>>
    /\ entropy = NoRat
    /\ grouped = EmptyGroups
    /\ scored = {}
    /\ PageInit

Next == CompanyRun \/ EmployeeRun

Spec == Init /\ [][Next]_vars

----------------------------------------------------------------------------
(* The scoring helpers on their own: every taxonomy of at most MaxPool     *)
(* items and every value list of at most MaxLen names.  The taxonomy file  *)
(* is an array of {name, level 1..7, type positive|negative, definition};  *)
(* nothing makes its names unique.                                         *)

ScoreNames == {<<"a">>, <<"b">>}
\* names an input list may hold: those of the taxonomy and one that is in none
ValueNames == ScoreNames \cup {<<"c">>}
ScoreLevels == {1, NumLevels}
ScoreItems ==
    [name : ScoreNames, level : ScoreLevels, type : Polarities,
     definition : {<<"d">>}]

InitScore ==
    /\ MIZAN_VALUES_POOL \in SeqsUpTo(ScoreItems, MaxPool)
    /\ values \in SeqsUpTo(ValueNames, MaxLen)
    /\ entropy = NoRat
    /\ grouped = EmptyGroups
    /\ scored = {}
    /\ PageInit

ScoreEntropy ==
    /\ "entropy" \notin scored
    /\ entropy' = calculate_entropy(values, MIZAN_VALUES_POOL)
    /\ scored' = scored \cup {"entropy"}
    /\ UNCHANGED <<MIZAN_VALUES_POOL, values, grouped, pageVars>>

ScoreGroup ==
    /\ "group" \notin scored
    /\ grouped' = group_values(values, MIZAN_VALUES_POOL)
    /\ scored' = scored \cup {"group"}
    /\ UNCHANGED <<MIZAN_VALUES_POOL, values, entropy, pageVars>>

NextScore == ScoreEntropy \/ ScoreGroup

SpecScore == InitScore /\ [][NextScore]_vars

----------------------------------------------------------------------------
(* Vocabulary of the scoring claims.                                       *)

Count(seq, x) == Cardinality({j \in 1..Len(seq) : seq[j] = x})

\* positions of the input names that have at least one taxonomy match
Matched(vals, pool) ==
    {k \in 1..Len(vals) : \E i \in 1..Len(pool) : pool[i].name = vals[k]}

\* (input position, taxonomy position) pairs whose names are equal
Matches(vals, pool) ==
    {p \in (1..Len(vals)) \X (1..Len(pool)) : pool[p[2]].name = vals[p[1]]}

UniqueNames(pool) ==
    \A i, j \in 1..Len(pool) : pool[i].name = pool[j].name => i = j

Buckets == MIZAN_LEVELS \X Polarities

RECURSIVE SumOver(_, _)
SumOver(S, f) ==
    IF S = {} THEN 0
    ELSE LET x == CHOOSE y \in S : TRUE IN f[x] + SumOver(S \ {x}, f)

\* number of names over all 14 buckets
TotalGrouped(g) == SumOver(Buckets, [b \in Buckets |-> Len(g[b[1]][b[2]])])

\* C1 (as stated): entropy = 100 * (matched input names that are limiting) /
\* (matched input names) for every taxonomy, and exactly 0 when nothing
\* matches.  "Limiting" is read either way for a name with several taxonomy
\* items: some item negative, or every item negative.
C1_EntropyPerMatchedName ==
    "entropy" \in scored =>
        LET m == Matched(values, MIZAN_VALUES_POOL)
            someNeg == {k \in m : \E i \in 1..Len(MIZAN_VALUES_POOL) :
                            /\ MIZAN_VALUES_POOL[i].name = values[k]
                            /\ MIZAN_VALUES_POOL[i].type = "negative"}
            allNeg == {k \in m : \A i \in 1..Len(MIZAN_VALUES_POOL) :
                            MIZAN_VALUES_POOL[i].name = values[k]
                                => MIZAN_VALUES_POOL[i].type = "negative"}
        IN IF m = {} THEN entropy = Zero
           ELSE /\ entropy.den > 0
                /\ \/ RatEq(entropy, Rat(100 * Cardinality(someNeg), Cardinality(m)))
                   \/ RatEq(entropy, Rat(100 * Cardinality(allNeg), Cardinality(m)))

\* C1 (amended): entropy = 100 * (matches whose taxonomy item is negative) /
\* (matches), a match being an input name paired with a taxonomy item of
\* that name; exactly 0 when there is no match; and for a taxonomy with
\* unique names this is the ratio over the matched input names.
C1_EntropyPerMatch ==
    "entropy" \in scored =>
        LET ms == Matches(values, MIZAN_VALUES_POOL)
            neg == {p \in ms : MIZAN_VALUES_POOL[p[2]].type = "negative"}
            m == Matched(values, MIZAN_VALUES_POOL)
        IN IF ms = {} THEN entropy = Zero
           ELSE /\ entropy.den > 0
                /\ RatEq(entropy, Rat(100 * Cardinality(neg), Cardinality(ms)))
                /\ UniqueNames(MIZAN_VALUES_POOL) =>
                       RatEq(entropy,
                             Rat(100 * Cardinality({p[1] : p \in neg}), Cardinality(m)))

\* Entropy was computed from a list with a matched and an unmatched name
\* against a taxonomy in which a name occurs twice, and lies strictly
\* between 0 and 100.
C1_Witness ==
    /\ "entropy" \in scored
    /\ ~UniqueNames(MIZAN_VALUES_POOL)
    /\ Matched(values, MIZAN_VALUES_POOL) # {}
    /\ Matched(values, MIZAN_VALUES_POOL) # 1..Len(values)
    /\ RatLess(Zero, entropy) /\ RatLess(entropy, Rat(100, 1))

\* C2 (as stated): every matched input name is in exactly one bucket, the
\* buckets together hold as many names as there are matched input names,
\* and unmatched names are in no bucket; for any taxonomy.
C2_GroupPartitionsMatched ==
    "group" \in scored =>
        /\ TotalGrouped(grouped) = Cardinality(Matched(values, MIZAN_VALUES_POOL))
        /\ \A k \in 1..Len(values) :
               LET holding == {b \in Buckets : Count(grouped[b[1]][b[2]], values[k]) > 0}
               IN IF k \in Matched(values, MIZAN_VALUES_POOL)
                  THEN Cardinality(holding) = 1
                  ELSE holding = {}

\* C2 (amended): bucket (level, type) holds each name once per match of that
\* name with a taxonomy item of that level and type, so the buckets together
\* hold as many names as there are matches and unmatched names are in none;
\* for a taxonomy with unique names every matched input name is in exactly
\* one bucket and the total is the number of matched input names.
C2_GroupPerMatch ==
    "group" \in scored =>
        /\ \A b \in Buckets : \A n \in ValueNames :
               Count(grouped[b[1]][b[2]], n) =
                   Cardinality({p \in Matches(values, MIZAN_VALUES_POOL) :
                                   /\ values[p[1]] = n
                                   /\ MIZAN_VALUES_POOL[p[2]].level = b[1]
                                   /\ MIZAN_VALUES_POOL[p[2]].type = b[2]})
        /\ \A b \in Buckets : \A j \in 1..Len(grouped[b[1]][b[2]]) :
               grouped[b[1]][b[2]][j] \in ValueNames
        /\ TotalGrouped(grouped) = Cardinality(Matches(values, MIZAN_VALUES_POOL))
        /\ UniqueNames(MIZAN_VALUES_POOL) =>
               /\ TotalGrouped(grouped) = Cardinality(Matched(values, MIZAN_VALUES_POOL))
               /\ \A k \in Matched(values, MIZAN_VALUES_POOL) :
                      Cardinality({b \in Buckets :
                                      Count(grouped[b[1]][b[2]], values[k]) > 0}) = 1

\* A list with a repeated matched name and an unmatched name was grouped
\* against a taxonomy of two distinct names: two buckets are filled and the
\* unmatched name is left out.
C2_Witness ==
    /\ "group" \in scored
    /\ UniqueNames(MIZAN_VALUES_POOL)
    /\ Len(MIZAN_VALUES_POOL) = 2
    /\ Cardinality(Matched(values, MIZAN_VALUES_POOL)) = 2
    /\ Len(values) = 3
    /\ TotalGrouped(grouped) = 2

----------------------------------------------------------------------------
(* Vocabulary of the session claims.  A primed name is the value after the *)
(* page run, an unprimed one the value before it; `run`, `rendered` and    *)
(* `shown` after a run describe that run.                                  *)

employee_responses == Responses(session_state)

HasKey(k) == k \in DOMAIN session_state

SetupComplete == HasKey("company_info") /\ HasKey("company_structure")

Sevens(sel) == Len(sel) = 7

\* an entry was appended to employee_responses by the step
Appended ==
    /\ Len(employee_responses') = Len(employee_responses) + 1
    /\ SubSeq(employee_responses', 1, Len(employee_responses)) = employee_responses

Last(seq) == seq[Len(seq)]

\* the step is a run of the Employee page that reached the submit button
\* with the button pressed
SubmitPressed ==
    /\ run'.page = "Employee"
    /\ run'.button = "btn_report"
    /\ "btn_report" \in rendered'

\* C3: on the Employee page, a personal selection that is not of 7 items
\* keeps the Current Culture step from being rendered, and any of the three
\* selections not being of 7 items keeps the rating step and the submit
\* button from being rendered, no call from being made and
\* employee_responses as it was.
C3_SelectionGate ==
    [][run'.page = "Employee" =>
          /\ ~Sevens(run'.personal) => "step3" \notin rendered'
          /\ (~Sevens(run'.personal) \/ ~Sevens(run'.current) \/ ~Sevens(run'.desired))
                 => /\ "step5" \notin rendered'
                    /\ "btn_report" \notin rendered'
                    /\ run'.calls = 0
                    /\ employee_responses' = employee_responses]_vars

\* The submit button was pressed in a run whose personal selection has 7
\* items and whose current selection has 8: the run halted at step 3.
C3_Witness ==
    /\ run.page = "Employee"
    /\ run.button = "btn_report"
    /\ Sevens(run.personal)
    /\ Len(run.current) = 8
    /\ rendered = {"step1", "step2", "step3"}
    /\ run.ended = "stopped"
    /\ SetupComplete

\* C4 (as stated): whenever the submit button is reached and pressed,
\* exactly one entry is appended and its three value lists have 7 items.
C4_SubmitAlwaysAppends ==
    [][SubmitPressed =>
          /\ Appended
          /\ Len(Last(employee_responses').personal_values) = 7
          /\ Len(Last(employee_responses').current_experience) = 7
          /\ Len(Last(employee_responses').desired_values) = 7]_vars

\* C4 (amended): whenever the submit button is reached and pressed and the
\* insight call and the logging of its answer complete, exactly one entry is
\* appended and its three value lists have 7 items; when either raises,
\* nothing is appended.
C4_SubmitAppendsOnSuccess ==
    [][SubmitPressed =>
          IF run'.outcome = "ok"
          THEN /\ Appended
               /\ Len(Last(employee_responses').personal_values) = 7
               /\ Len(Last(employee_responses').current_experience) = 7
               /\ Len(Last(employee_responses').desired_values) = 7
          ELSE employee_responses' = employee_responses]_vars

\* A second submission went through: two entries are stored and the last
\* run is a completed submit.
C4_Witness ==
    /\ run.page = "Employee"
    /\ run.button = "btn_report"
    /\ run.outcome = "ok"
    /\ run.ended = "running"
    /\ Len(employee_responses) = 2
    /\ "chart" \in rendered

\* C5: no page run shortens employee_responses or changes an entry that is
\* already in it.
C5_AppendOnly ==
    [][/\ Len(employee_responses') >= Len(employee_responses)
       /\ \A i \in 1..Len(employee_responses) :
              employee_responses'[i] = employee_responses[i]]_vars

\* With two entries stored, a save on the Company page went on to read them
\* for the analysis section and the dashboard.
C5_Witness ==
    /\ Len(employee_responses) = 2
    /\ run.page = "Company"
    /\ run.button = "save"
    /\ {"analysis", "chart"} \subseteq rendered

\* the file the uploader holds after the step lacks a needed column
RejectedFileHeld ==
    /\ run'.page = "Company"
    /\ uploader' # "none"
    /\ ~(needed \subseteq Files[uploader'].columns)

\* C6: a Company run whose uploader holds a file lacking a needed column
\* shows the error, leaves company_structure as it was (absent or the frame
\* stored before), and does not render the org-design button.
C6_RejectedUpload ==
    [][RejectedFileHeld =>
          /\ "Missing required columns in CSV." \in shown'
          /\ "btn_orgdesign" \notin rendered'
          /\ ("company_structure" \in DOMAIN session_state')
                 <=> ("company_structure" \in DOMAIN session_state)
          /\ "company_structure" \in DOMAIN session_state
                 => session_state'["company_structure"]
                        = session_state["company_structure"]]_vars

\* A file without "Supervisor Name" was uploaded after a good one: the
\* error is shown and the good frame is still stored.
C6_Witness ==
    /\ run.page = "Company"
    /\ run.kind = "upload"
    /\ run.file = "nosup"
    /\ uploader = "nosup"
    /\ "Missing required columns in CSV." \in shown
    /\ HasKey("company_structure")
    /\ session_state["company_structure"] = Files["good"]

\* C7: an Employee run that starts without company_info or without
\* company_structure shows the warning and renders nothing else, and no run
\* that starts so appends to employee_responses.
C7_PrerequisiteGate ==
    [][~SetupComplete =>
          /\ employee_responses' = employee_responses
          /\ run'.page = "Employee" =>
                 /\ "The company has not completed setup." \in shown'
                 /\ rendered' = {}
                 /\ run'.calls = 0]_vars

\* The submit button was pressed on the Employee page while company_info was
\* saved but no structure was stored: only the warning came of it.
C7_Witness ==
    /\ run.page = "Employee"
    /\ run.button = "btn_report"
    /\ HasKey("company_info")
    /\ ~HasKey("company_structure")
    /\ shown = {"The company has not completed setup."}
    /\ rendered = {}

\* the profile stored before and after the step
OldInfo == get_company(session_state)
NewInfo == session_state'["company_info"]

\* field f of the stored profile is what it was
FieldKept(f) ==
    /\ (f \in DOMAIN NewInfo) <=> (f \in DOMAIN OldInfo)
    /\ f \in DOMAIN OldInfo => NewInfo[f] = OldInfo[f]

\* C8: in a run in which Save Company Info is pressed, every non-empty input
\* is stored in its field, every field whose input is empty is kept as it
\* was, no field is removed, and company_structure and employee_responses
\* are what they were.
C8_SaveMerges ==
    [][(run'.page = "Company" /\ run'.button = "save") =>
          /\ "company_info" \in DOMAIN session_state'
          /\ \A f \in {"name", "vision", "mission", "strategy"} :
                 IF run'.form[f] # ""
                 THEN f \in DOMAIN NewInfo /\ NewInfo[f] = run'.form[f]
                 ELSE FieldKept(f)
          /\ IF run'.form.values # <<>>
             THEN /\ "values" \in DOMAIN NewInfo
                  /\ NewInfo["values"] = ParseValues(run'.form.values)
             ELSE FieldKept("values")
          /\ DOMAIN OldInfo \subseteq DOMAIN NewInfo
          /\ DOMAIN session_state \subseteq DOMAIN session_state'
          /\ \A k \in {"company_structure", "employee_responses"} :
                 /\ (k \in DOMAIN session_state') <=> (k \in DOMAIN session_state)
                 /\ k \in DOMAIN session_state => session_state'[k] = session_state[k]]_vars

\* The second form was saved over the first while a structure and a
\* submission were stored and the uploader held a file: the name was
\* replaced and the vision, left empty in the form, is still the first's.
C8_Witness ==
    /\ run.page = "Company"
    /\ run.button = "save"
    /\ run.form.name = "Beta"
    /\ run.form.vision = ""
    /\ HasKey("company_info")
    /\ DOMAIN session_state["company_info"]
           = {"name", "vision", "mission", "strategy", "values"}
    /\ session_state["company_info"]["name"] = "Beta"
    /\ session_state["company_info"]["vision"] = "v1"
    /\ session_state["company_info"]["values"] = <<<<"p">>, <<"q">>>>
    /\ uploader = "wide"
    /\ HasKey("company_structure")
    /\ Len(employee_responses) = 1

\* C9: a page run dispatches at most one insight call, and only for a
\* pressed insight button; a run whose call fails ends there, with the log
\* files and employee_responses as they were; an entry is appended only by
\* a run whose call returned and whose answer was logged as the employee's
\* report.
C9_CallOnceNoRecovery ==
    [][/\ run'.calls <= 1
       /\ run'.calls = 1 => (run'.kind = "press" /\ run'.button \in InsightButtons)
       /\ run'.outcome = "call_fails" =>
              /\ run'.ended = "raised"
              /\ logs' = logs
              /\ employee_responses' = employee_responses
       /\ employee_responses' # employee_responses =>
              /\ run'.outcome = "ok"
              /\ Len(logs') = Len(logs) + 1
              /\ SubSeq(logs', 1, Len(logs)) = logs
              /\ Last(logs').context
                     = <<"employee", Last(employee_responses').email, "report">>]_vars

\* The call of a submission failed after an earlier submission had gone
\* through: the run ended in the exception and one entry and one log file
\* are there.
C9_Witness ==
    /\ run.page = "Employee"
    /\ run.button = "btn_report"
    /\ run.outcome = "call_fails"
    /\ run.calls = 1
    /\ run.ended = "raised"
    /\ Len(employee_responses) = 1
    /\ Len(logs) = 1

\* the stored company name, "" when there is none
StoredName ==
    IF HasKey("company_info") /\ "name" \in DOMAIN session_state["company_info"]
    THEN session_state["company_info"]["name"] ELSE ""

\* C10: a stored structure implies a stored profile with a non-empty name, a
\* stored non-empty name is only replaced by a non-empty name, and every
\* entry is appended with the name stored at that moment, which is not
\* empty.
C10_StructureImpliesName ==
    /\ [](HasKey("company_structure") => (HasKey("company_info") /\ StoredName # ""))
    /\ [](\A i \in 1..Len(employee_responses) : employee_responses[i].company # "")
    /\ [][/\ StoredName # "" => StoredName' # ""
          /\ employee_responses' # employee_responses =>
                 /\ Last(employee_responses').company = StoredName
                 /\ StoredName' = StoredName]_vars

\* An entry appended under the name "Acme" is stored while the company's
\* name is now "Beta".
C10_Witness ==
    /\ Len(employee_responses) >= 1
    /\ employee_responses[1].company = "Acme"
    /\ StoredName = "Beta"
    /\ HasKey("company_structure")

====
